---- MODULE Spec2Model ----
(***************************************************************************)
(* A model of s3_folder_zipper.py: S3FolderZipper.process_folders and the  *)
(* stages it sequences (_list_s3_files, _download_files, _create_zip,      *)
(* _upload_zip, cleanup) together with main's exit code.                   *)
(*                                                                         *)
(* Strings (S3 keys, prefixes, local paths) are sequences of tokens: the   *)
(* token "/" is the path separator, every other token stands for a         *)
(* non-empty run of characters without a separator ("a", "..", ...).       *)
(* A file's content is a natural number whose value is also its size in    *)
(* bytes (0 is the empty file).  The local file system is a function from  *)
(* resolved absolute paths (sequences of names below "/") to contents,     *)
(* plus the set of directories that exist.                                 *)
(*                                                                         *)
(* The storage calls answer nondeterministically: a listing, a probe, a    *)
(* transfer or an upload may fail, and so may the writing of the archive.  *)
(* Local calls other than the archive write (makedirs, remove, rmdir) are  *)
(* taken to succeed, the configuration to hold an `options` section, and   *)
(* no object key to name the archive file or a directory of the workspace. *)
(* The variables ops, start and prev record what a run did, what it found  *)
(* and how the run before it ended; no action reads them.                  *)
(***************************************************************************)
EXTENDS Integers, Sequences, FiniteSets, TLC

\* ------------------------------------------------------------------ bounds
MaxRuns == 2

\* ------------------------------------------------------- string operations
Sep == "/"

RECURSIVE CountSep(_)
\* str.count('/')
CountSep(s) ==
    IF s = <<>> THEN 0
    ELSE (IF Head(s) = Sep THEN 1 ELSE 0) + CountSep(Tail(s))

\* '/' in s
HasSep(s) == CountSep(s) > 0

\* s.endswith('/')
EndsWithSep(s) == Len(s) > 0 /\ s[Len(s)] = Sep

\* s.startswith(p)
StartsWith(s, p) == Len(p) <= Len(s) /\ SubSeq(s, 1, Len(p)) = p

RECURSIVE Split(_)
\* s.split('/'): the components between separators, empty ones included
Split(s) ==
    IF \A i \in 1..Len(s) : s[i] # Sep THEN <<s>>
    ELSE LET i == CHOOSE j \in 1..Len(s) :
                      s[j] = Sep /\ \A k \in 1..(j-1) : s[k] # Sep
         IN <<SubSeq(s, 1, i-1)>> \o Split(SubSeq(s, i+1, Len(s)))

\* the components of s that name something: not empty, not "."
Components(s) == SelectSeq(Split(s), LAMBDA c : c # <<>> /\ c # <<".">>)

\* pathlib.Path(s).parts on POSIX: the root "/" first when s is absolute, then
\* the non-empty components other than "."
Parts(s) ==
    (IF Len(s) > 0 /\ s[1] = Sep THEN << <<Sep>> >> ELSE <<>>) \o Components(s)

\* os.path.basename(s): what follows the last separator
Basename(s) == Split(s)[Len(Split(s))]

\* os.path.join(a, b)
Join(a, b) ==
    IF Len(b) > 0 /\ b[1] = Sep THEN b
    ELSE IF a = <<>> \/ EndsWithSep(a) THEN a \o b
    ELSE a \o <<Sep>> \o b

RECURSIVE Fold(_, _)
\* resolution of a component list against the directory stack acc: ".." climbs
\* to the parent (the parent of the root is the root)
Fold(acc, cs) ==
    IF cs = <<>> THEN acc
    ELSE IF Head(cs) = <<"..">>
         THEN Fold(IF acc = <<>> THEN <<>> ELSE SubSeq(acc, 1, Len(acc)-1), Tail(cs))
         ELSE Fold(Append(acc, Head(cs)[1]), Tail(cs))

\* the file an absolute path string names: the sequence of names below "/"
Resolve(s) == Fold(<<>>, Components(s))

RECURSIVE JoinNames(_)
\* the names of a resolved path joined by the separator
JoinNames(ns) ==
    IF ns = <<>> THEN <<>>
    ELSE IF Len(ns) = 1 THEN <<ns[1]>>
    ELSE <<ns[1], Sep>> \o JoinNames(Tail(ns))

\* every proper ancestor directory of a resolved path, the root included
Ancestors(p) == { SubSeq(p, 1, n) : n \in 0..(Len(p)-1) }

IsUnder(p, d) == Len(p) > Len(d) /\ SubSeq(p, 1, Len(d)) = d

\* ------------------------------------------------------------ configuration
\* zip_config.output_zip_name
zip_name == "z"

\* zip_config.local_directory after os.path.abspath
local_dir == <<Sep, "w">>

\* the archive's path: os.path.join(output_dir, zip_name)
zip_path == Join(local_dir, <<zip_name>>)

\* the resolved local root
Root == Resolve(local_dir)

\* aws.destination_bucket
dest_bucket == "B"

\* the values of zip_config.destination_prefix: a prefix without a trailing
\* separator, a prefix with one
DestPrefixes == { <<"o">>, <<"o", Sep>> }

\* a place in the storage; NoPath when none was named
NoPath == [bucket |-> "", key |-> <<>>]

\* the bucket and key _upload_zip probes and uploads to
UploadPath(c) ==
    [bucket |-> dest_bucket,
     key |-> Join(c.destination_prefix, Basename(zip_path))]

\* the destination _simulate_process reports: s3://{dest_bucket}/{dest_prefix}{zip_name}
SimulatedPath(c) ==
    [bucket |-> dest_bucket,
     key |-> c.destination_prefix \o <<zip_name>>]

\* -------------------------------------------------------- the source bucket
\* the keys of the source bucket in the order the storage lists them
BucketKeys ==
    << <<Sep, "a">>,
       <<"a">>,
       <<"d", Sep>>,
       <<"d", Sep, "..", Sep, "b">>,
       <<"d", Sep, "a">>,
       <<"d", Sep, "b">>,
       <<"d", Sep, "e", Sep>>,
       <<"d", Sep, "z">>,
       <<"e", Sep, "d", Sep, "a">> >>

\* the content (and ContentLength) of the object at position i of BucketKeys
BucketContent == <<1, 1, 0, 1, 2, 0, 0, 1, 1>>

KeySet == { BucketKeys[i] : i \in DOMAIN BucketKeys }

ContentOf(key) == BucketContent[CHOOSE i \in DOMAIN BucketKeys : BucketKeys[i] = key]

\* the values zip_config.source_prefixes takes
PrefixChoices ==
    { <<>>,
      << <<"x">>, <<"x", Sep>> >>,
      << <<"a">> >>,
      << <<"d", Sep, "b">> >>,
      << <<"a">>, <<"d", Sep, "b">> >>,
      << <<"d", Sep>> >>,
      << <<"e", Sep>>, <<"d", Sep>> >>,
      << <<"d", Sep>>, <<"e", Sep>> >>,
      << <<"d", Sep, "b">>, <<"d", Sep>> >>,
      << <<Sep>> >> }

\* ----------------------------------------------------------------- archives
NoArchive == [kind |-> "none", entries |-> {}]

\* a readable archive whose per-entry integrity check passes; entries are
\* <<name, content>> pairs
ValidArchive(es) == [kind |-> "valid", entries |-> es]

\* a file that does not parse as an archive (zipfile.BadZipFile)
CorruptArchive == [kind |-> "corrupt", entries |-> {}]

\* an archive that opens but whose testzip() names a bad entry
BadEntryArchive == [kind |-> "badentry", entries |-> {}]

\* an archive that opens but whose testzip() raises an error that is no
\* BadZipFile (zlib.error on a damaged deflate stream)
UndecodableArchive == [kind |-> "undecodable", entries |-> {}]

\* ---------------------------------------------------------------- the state
VARIABLES
    config,            \* [source_prefixes, overwrite_s3, delete_local_after, dry_run]
    files,             \* local regular files: resolved path -> content
    dirs,              \* local directories that exist (resolved paths)
    archive,           \* the file at zip_path
    dest,              \* the object at the destination key
    pc,                \* the position of main / process_folders
    runNo,             \* the invocation of main this is
    all_files,         \* process_folders: the keys listed so far
    idx,               \* the index of the loop in progress
    total_size,        \* process_folders: the sum of the probed sizes
    downloaded_files,  \* _download_files: local paths transferred
    skipped_files,     \* _download_files: local paths skipped
    exit_code,         \* what main returned (-1 while it runs)
    ops,               \* the operations this run has issued
    start,             \* the local files, directories, archive and destination when this run started
    prev               \* how the previous run ended and what it left

vars == <<config, files, dirs, archive, dest, pc, runNo, all_files, idx,
          total_size, downloaded_files, skipped_files, exit_code, ops, start, prev>>

\* list, head, mkdir, transfer, upload: calls issued; build: calls of _create_zip;
\* written: archives opened for writing; cleanup: cleanup steps; removed: local
\* files deleted; failed: the stage whose error propagated; paged: paged
\* listings issued; notfound: 404 answers received for source objects; cause:
\* the answer that made the run raise ("404", or "error" for any other);
\* preview: the destination a dry run reported; target: the destination
\* _upload_zip addressed
NoOps == [list |-> 0, head |-> 0, mkdir |-> 0, transfer |-> 0, build |-> 0,
          written |-> 0, upload |-> 0, cleanup |-> 0, removed |-> {}, failed |-> "none",
          paged |-> 0, notfound |-> 0, cause |-> "none",
          preview |-> NoPath, target |-> NoPath]

NoPrev == [result |-> "none", archive |-> NoArchive, failed |-> "none"]

\* the workspaces a first run may find: nothing at all; files kept from an
\* earlier use of the directory, with a valid archive of them; a deeper tree
\* with an unreadable archive; a file with an archive that fails its
\* integrity check; a file with an archive whose check raises
Workspaces ==
    { [files |-> << >>, dirs |-> {<<>>}, archive |-> NoArchive],
      [files |-> (<<"w", "d", "a">> :> 3) @@ (<<"w", "a">> :> 0),
       dirs |-> {<<>>, <<"w">>, <<"w", "d">>},
       archive |-> ValidArchive({ << <<"d", Sep, "a">>, 3 >>, << <<"a">>, 0 >> })],
      [files |-> (<<"w", "e", "d", "a">> :> 1) @@ (<<"w", "f", "d", "a">> :> 2),
       dirs |-> {<<>>, <<"w">>, <<"w", "e">>, <<"w", "e", "d">>,
                 <<"w", "f">>, <<"w", "f", "d">>},
       archive |-> CorruptArchive],
      [files |-> (<<"w", "d", "a">> :> 2),
       dirs |-> {<<>>, <<"w">>, <<"w", "d">>},
       archive |-> BadEntryArchive],
      [files |-> (<<"w", "a">> :> 1),
       dirs |-> {<<>>, <<"w">>},
       archive |-> UndecodableArchive] }

Init ==
    /\ config \in [source_prefixes : PrefixChoices, overwrite_s3 : BOOLEAN,
                   delete_local_after : BOOLEAN, dry_run : BOOLEAN,
                   destination_prefix : DestPrefixes]
    /\ \E w \in Workspaces :
          /\ files = w.files
          /\ dirs = w.dirs
          /\ archive = w.archive
    /\ dest \in {NoArchive, ValidArchive({ << <<"old">>, 1 >> })}
    /\ pc = "main"
    /\ runNo = 1
    /\ all_files = <<>>
    /\ idx = 0
    /\ total_size = 0
    /\ downloaded_files = <<>>
    /\ skipped_files = <<>>
    /\ exit_code = -1
    /\ ops = NoOps
    /\ start = [files |-> files, dirs |-> dirs, archive |-> archive, dest |-> dest]
    /\ prev = NoPrev

\* --------------------------------------------------------------------- main
\* a main that returns 0 whatever happened
ExitCodeAlwaysZero(result) == 0

\* main's return value once the run has ended as `result`
ExitCode(result) == IF result = "returned" THEN 0 ELSE 1

\* main up to the call of process_folders: the configuration file is missing,
\* the constructor raises, or the run starts
MainStart ==
    /\ pc = "main"
    /\ \E c \in {"ok", "no_config", "init_error"} :
          IF c = "ok"
          THEN /\ pc' = "list"
               /\ idx' = 1
               /\ UNCHANGED <<exit_code, prev>>
          ELSE /\ pc' = "exit"
               /\ exit_code' = ExitCode(c)
               /\ prev' = [result |-> c, archive |-> archive, failed |-> "none"]
               /\ UNCHANGED idx
    /\ UNCHANGED <<config, files, dirs, archive, dest, runNo, all_files, total_size,
                   downloaded_files, skipped_files, ops, start>>

\* main after process_folders returned or raised
MainReturn ==
    /\ pc \in {"returned", "raised"}
    /\ pc' = "exit"
    /\ exit_code' = ExitCode(pc)
    /\ prev' = [result |-> pc, archive |-> archive, failed |-> ops.failed]
    /\ UNCHANGED <<config, files, dirs, archive, dest, runNo, all_files, idx, total_size,
                   downloaded_files, skipped_files, ops, start>>

\* the next invocation of the program with the same configuration
NextRun ==
    /\ pc = "exit"
    /\ runNo < MaxRuns
    /\ runNo' = runNo + 1
    /\ pc' = "main"
    /\ all_files' = <<>>
    /\ idx' = 0
    /\ total_size' = 0
    /\ downloaded_files' = <<>>
    /\ skipped_files' = <<>>
    /\ exit_code' = -1
    /\ ops' = NoOps
    /\ start' = [files |-> files, dirs |-> dirs, archive |-> archive, dest |-> dest]
    /\ UNCHANGED <<config, files, dirs, archive, dest, prev>>

\* ------------------------------------------------------------ _list_s3_files
\* the keys a paged listing of `prefix` appends: every key under the prefix
\* but the prefix itself
Listed(prefix) ==
    SelectSeq(BucketKeys, LAMBDA k : StartsWith(k, prefix) /\ k # prefix)

\* what the storage may answer to the lister for `prefix`
ListAnswers(prefix) ==
    IF ~EndsWithSep(prefix)
    THEN (IF prefix \in KeySet THEN {"found"} ELSE {"404"}) \cup {"error"}
    ELSE {"pages", "error"}

\* a lister that returns the prefix whatever the probe answered
ListFilesAnyAnswer(prefix, ans) ==
    IF ~EndsWithSep(prefix) THEN <<prefix>> ELSE Listed(prefix)

\* _list_s3_files(prefix) under the answer `ans`; "error" propagates
ListFiles(prefix, ans) ==
    IF ~EndsWithSep(prefix)
    THEN (IF ans = "found" THEN <<prefix>> ELSE <<>>)
    ELSE Listed(prefix)

\* the paged listings _list_s3_files(prefix) issues
Paged(prefix) == IF EndsWithSep(prefix) THEN 1 ELSE 0

\* ----------------------------------------------------------- process_folders
\* one iteration of the listing loop
ListPrefix ==
    /\ pc = "list"
    /\ idx <= Len(config.source_prefixes)
    /\ \E ans \in ListAnswers(config.source_prefixes[idx]) :
          IF ans = "error"
          THEN /\ pc' = "raised"
               /\ ops' = [ops EXCEPT !.list = @ + 1, !.failed = "list", !.cause = "error",
                                     !.paged = @ + Paged(config.source_prefixes[idx])]
               /\ UNCHANGED <<all_files, idx>>
          ELSE /\ all_files' = all_files \o ListFiles(config.source_prefixes[idx], ans)
               /\ idx' = idx + 1
               /\ ops' = [ops EXCEPT !.list = @ + 1,
                                     !.paged = @ + Paged(config.source_prefixes[idx]),
                                     !.notfound = @ + (IF ans = "404" THEN 1 ELSE 0)]
               /\ UNCHANGED pc
    /\ UNCHANGED <<config, files, dirs, archive, dest, runNo, total_size,
                   downloaded_files, skipped_files, exit_code, start, prev>>

\* a check that never takes the early return
NothingListedIgnored(fs) == FALSE

\* `if not all_files`
NothingListed(fs) == fs = <<>>

\* the listing loop is over: return when nothing was listed
EmptyCheck ==
    /\ pc = "list"
    /\ idx > Len(config.source_prefixes)
    /\ IF NothingListed(all_files)
       THEN pc' = "returned" /\ UNCHANGED idx
       ELSE pc' = "probe" /\ idx' = 1
    /\ UNCHANGED <<config, files, dirs, archive, dest, runNo, all_files, total_size,
                   downloaded_files, skipped_files, exit_code, ops, start, prev>>

\* what the storage may answer to a size probe: the object, a 404 when it was
\* removed after the listing, or another error
ProbeAnswers == {"found", "404", "error"}

\* the size accounting goes on after the answer `ans`
ProbeContinues(ans) == ans = "found"

\* a size accounting that notes a failed probe and goes on with the next key
SizeProbeGoesOn ==
    /\ pc = "probe"
    /\ idx <= Len(all_files)
    /\ \E ans \in ProbeAnswers :
          /\ idx' = idx + 1
          /\ pc' = (IF idx = Len(all_files) THEN "branch" ELSE "probe")
          /\ IF ~ProbeContinues(ans)
             THEN /\ ops' = [ops EXCEPT !.head = @ + 1, !.failed = "probe", !.cause = ans,
                                        !.notfound = @ + (IF ans = "404" THEN 1 ELSE 0)]
                  /\ UNCHANGED total_size
             ELSE /\ total_size' = total_size + ContentOf(all_files[idx])
                  /\ ops' = [ops EXCEPT !.head = @ + 1]
    /\ UNCHANGED <<config, files, dirs, archive, dest, runNo, all_files,
                   downloaded_files, skipped_files, exit_code, start, prev>>

\* one head_object of the size accounting; any failure propagates
SizeProbe ==
    /\ pc = "probe"
    /\ idx <= Len(all_files)
    /\ \E ans \in ProbeAnswers :
          IF ~ProbeContinues(ans)
          THEN /\ pc' = "raised"
               /\ ops' = [ops EXCEPT !.head = @ + 1, !.failed = "probe", !.cause = ans,
                                     !.notfound = @ + (IF ans = "404" THEN 1 ELSE 0)]
               /\ UNCHANGED <<total_size, idx>>
          ELSE /\ total_size' = total_size + ContentOf(all_files[idx])
               /\ idx' = idx + 1
               /\ pc' = IF idx = Len(all_files) THEN "branch" ELSE "probe"
               /\ ops' = [ops EXCEPT !.head = @ + 1]
    /\ UNCHANGED <<config, files, dirs, archive, dest, runNo, all_files,
                   downloaded_files, skipped_files, exit_code, start, prev>>

\* a run that ignores the dry-run flag
DryRunIgnored(c) == FALSE

\* `if self.dry_run`
IsDryRun(c) == c.dry_run

\* _simulate_process: logging only
SimulateProcess ==
    /\ pc = "branch"
    /\ IsDryRun(config)
    /\ pc' = "returned"
    /\ ops' = [ops EXCEPT !.preview = SimulatedPath(config)]
    /\ UNCHANGED <<config, files, dirs, archive, dest, runNo, all_files, idx, total_size,
                   downloaded_files, skipped_files, exit_code, start, prev>>

\* os.makedirs(local_dir, exist_ok=True)
MakeLocalDir ==
    /\ pc = "branch"
    /\ ~IsDryRun(config)
    /\ dirs' = dirs \cup Ancestors(Root) \cup {Root}
    /\ ops' = [ops EXCEPT !.mkdir = @ + 1]
    /\ pc' = "download"
    /\ idx' = 1
    /\ UNCHANGED <<config, files, archive, dest, runNo, all_files, total_size,
                   downloaded_files, skipped_files, exit_code, start, prev>>

\* ----------------------------------------------------------- _download_files
\* a local path that keeps the file name only
LocalPathNameOnly(file) == Basename(file)

\* the local path of an object key, relative to the local directory
LocalPath(file) ==
    IF ~HasSep(file) \/ (CountSep(file) = 1 /\ EndsWithSep(file))
    THEN Basename(file)
    ELSE LET path_parts == Parts(file)
         IN IF Len(path_parts) > 1
            THEN Join(path_parts[Len(path_parts) - 1], path_parts[Len(path_parts)])
            ELSE path_parts[Len(path_parts)]

\* os.path.join(local_dir, local_path)
LocalFilePath(file) == Join(local_dir, LocalPath(file))

\* a skip test that does not look at the size
ShouldSkipAnySize(fs, ds, t) == t \in DOMAIN fs \/ t \in ds

\* os.path.exists(p) and os.path.getsize(p) > 0, p resolving to t (a directory
\* exists and has a positive size)
ShouldSkip(fs, ds, t) == (t \in DOMAIN fs /\ fs[t] > 0) \/ t \in ds

\* the local files with the file at t written / removed
WriteFile(fs, t, c) == [q \in DOMAIN fs \cup {t} |-> IF q = t THEN c ELSE fs[q]]
RemoveFiles(fs, ts) == [q \in DOMAIN fs \ ts |-> fs[q]]

\* `return downloaded_files + skipped_files`
DownloadResult(d, s) == d \o s

\* one iteration of the download loop: skip, transfer, or fail and propagate
DownloadStep ==
    /\ pc = "download"
    /\ idx <= Len(all_files)
    /\ LET file == all_files[idx]
           local_file_path == LocalFilePath(file)
           t == Resolve(local_file_path)
       IN IF ShouldSkip(files, dirs, t)
          THEN /\ skipped_files' = Append(skipped_files, local_file_path)
               /\ idx' = idx + 1
               /\ pc' = IF idx = Len(all_files) THEN "zip" ELSE "download"
               /\ UNCHANGED <<files, dirs, downloaded_files, ops>>
          ELSE /\ dirs' = dirs \cup Ancestors(t)
               /\ \E ans \in {"ok", "error"} :
                     IF ans = "ok"
                     THEN /\ files' = WriteFile(files, t, ContentOf(file))
                          /\ downloaded_files' = Append(downloaded_files, local_file_path)
                          /\ idx' = idx + 1
                          /\ pc' = IF idx = Len(all_files) THEN "zip" ELSE "download"
                          /\ ops' = [ops EXCEPT !.transfer = @ + 1]
                     ELSE /\ files' = RemoveFiles(files, {t})
                          /\ pc' = "raised"
                          /\ ops' = [ops EXCEPT !.transfer = @ + 1,
                                                !.removed = @ \cup ({t} \cap DOMAIN files),
                                                !.failed = "download", !.cause = "error"]
                          /\ UNCHANGED <<downloaded_files, idx>>
               /\ UNCHANGED skipped_files
    /\ UNCHANGED <<config, archive, dest, runNo, all_files, total_size,
                   exit_code, start, prev>>

\* --------------------------------------------------------------- _create_zip
\* the files os.walk(files_dir) yields
WalkFiles(fs) == { q \in DOMAIN fs : IsUnder(q, Root) }

\* the name of the entry written for the walked file q
ArcName(q) ==
    LET rel_path == JoinNames(SubSeq(q, Len(Root) + 1, Len(q)))
        path_parts == Parts(rel_path)
    IN IF Len(path_parts) > 1
       THEN Join(path_parts[Len(path_parts) - 1], path_parts[Len(path_parts)])
       ELSE path_parts[Len(path_parts)]

\* `if file == zip_name: continue`
IsZipItself(q) == q[Len(q)] = zip_name

\* the entries a complete build writes
BuildEntries(fs) == { <<ArcName(q), fs[q]>> : q \in { r \in WalkFiles(fs) : ~IsZipItself(r) } }

\* the existing archive is returned as it is
ReuseArchive(a) == a.kind = "valid"

\* the integrity check of the existing archive raises an error the code does
\* not catch
CheckRaises(a) == a.kind = "undecodable"

\* _create_zip: reuse a valid archive; otherwise (an unreadable one removed)
\* write a new one, which an I/O error may interrupt
CreateZip ==
    /\ pc = "zip"
    /\ IF ReuseArchive(archive)
       THEN /\ pc' = "upload"
            /\ ops' = [ops EXCEPT !.build = @ + 1]
            /\ UNCHANGED archive
       ELSE IF CheckRaises(archive)
       THEN /\ pc' = "raised"
            /\ ops' = [ops EXCEPT !.build = @ + 1, !.failed = "zip", !.cause = "error"]
            /\ UNCHANGED archive
       ELSE \E ans \in {"ok", "error"} :
               IF ans = "ok"
               THEN /\ archive' = ValidArchive(BuildEntries(files))
                    /\ pc' = "upload"
                    /\ ops' = [ops EXCEPT !.build = @ + 1, !.written = @ + 1]
               ELSE /\ archive' \in { ValidArchive(es) :
                                         es \in SUBSET BuildEntries(files) \ {BuildEntries(files)} }
                                    \cup {CorruptArchive}
                    /\ pc' = "raised"
                    /\ ops' = [ops EXCEPT !.build = @ + 1, !.written = @ + 1,
                                          !.failed = "zip", !.cause = "error"]
    /\ UNCHANGED <<config, files, dirs, dest, runNo, all_files, idx, total_size,
                   downloaded_files, skipped_files, exit_code, start, prev>>

\* --------------------------------------------------------------- _upload_zip
\* what head_object may answer for the destination key: found, a ClientError
\* (404 when the key is absent, any other service error either way), or an
\* exception that is no ClientError
HeadAnswers(d) ==
    (IF d.kind # "none" THEN {"found"} ELSE {}) \cup {"client_error", "exception"}

\* the probe's answer and the overwrite flag decide whether upload_file is called
WillUpload(ans, overwrite) ==
    \/ ans = "found" /\ overwrite
    \/ ans = "client_error"

\* a publisher that notes a failed upload and returns
UploadZipNotesFailure ==
    /\ pc = "upload"
    /\ \E ans \in HeadAnswers(dest) :
          IF ans = "exception"
          THEN /\ pc' = "raised"
               /\ ops' = [ops EXCEPT !.failed = "upload", !.cause = "error",
                                     !.target = UploadPath(config)]
               /\ UNCHANGED dest
          ELSE IF WillUpload(ans, config.overwrite_s3)
          THEN \E up \in {"ok", "error"} :
                  IF up = "ok"
                  THEN /\ dest' = archive
                       /\ pc' = "summary"
                       /\ ops' = [ops EXCEPT !.upload = @ + 1,
                                             !.target = UploadPath(config)]
                  ELSE /\ pc' = "summary"
                       /\ ops' = [ops EXCEPT !.upload = @ + 1, !.failed = "upload",
                                             !.cause = "error",
                                             !.target = UploadPath(config)]
                       /\ UNCHANGED dest
          ELSE /\ pc' = "summary"
               /\ ops' = [ops EXCEPT !.target = UploadPath(config)]
               /\ UNCHANGED dest
    /\ UNCHANGED <<config, files, dirs, archive, runNo, all_files, idx, total_size,
                   downloaded_files, skipped_files, exit_code, start, prev>>

\* _upload_zip: probe the destination, then upload unless the object was found
\* and overwrite_s3 is off
UploadZip ==
    /\ pc = "upload"
    /\ \E ans \in HeadAnswers(dest) :
          IF ans = "exception"
          THEN /\ pc' = "raised"
               /\ ops' = [ops EXCEPT !.failed = "upload", !.cause = "error",
                                     !.target = UploadPath(config)]
               /\ UNCHANGED dest
          ELSE IF WillUpload(ans, config.overwrite_s3)
          THEN \E up \in {"ok", "error"} :
                  IF up = "ok"
                  THEN /\ dest' = archive
                       /\ pc' = "summary"
                       /\ ops' = [ops EXCEPT !.upload = @ + 1,
                                             !.target = UploadPath(config)]
                  ELSE /\ pc' = "raised"
                       /\ ops' = [ops EXCEPT !.upload = @ + 1, !.failed = "upload",
                                             !.cause = "error",
                                             !.target = UploadPath(config)]
                       /\ UNCHANGED dest
          ELSE /\ pc' = "summary"
               /\ ops' = [ops EXCEPT !.target = UploadPath(config)]
               /\ UNCHANGED dest
    /\ UNCHANGED <<config, files, dirs, archive, runNo, all_files, idx, total_size,
                   downloaded_files, skipped_files, exit_code, start, prev>>

\* ------------------------------------------------- process_folders, the end
\* the summary divides by total_size
SummaryRaises(size) == size = 0

\* `if self.config['options'].get('delete_local_after', True)`
WantsCleanup(c) == c.delete_local_after

\* the operation summary
Summary ==
    /\ pc = "summary"
    /\ pc' = IF SummaryRaises(total_size) THEN "raised"
             ELSE IF WantsCleanup(config) THEN "cleanup"
             ELSE "returned"
    /\ ops' = [ops EXCEPT !.failed = IF SummaryRaises(total_size) THEN "summary" ELSE @,
                          !.cause = IF SummaryRaises(total_size) THEN "error" ELSE @]
    /\ UNCHANGED <<config, files, dirs, archive, dest, runNo, all_files, idx, total_size,
                   downloaded_files, skipped_files, exit_code, start, prev>>

\* the local files the cleanup loop removes
CleanupTargets(fs, d, s) ==
    { Resolve(DownloadResult(d, s)[i]) : i \in 1..Len(DownloadResult(d, s)) } \cap DOMAIN fs

\* the directories left once the empty ones under the local directory, and the
\* local directory itself when empty, are removed
DirsAfterCleanup(ds, fs) ==
    { x \in ds : ~(x = Root \/ IsUnder(x, Root)) \/ \E q \in DOMAIN fs : IsUnder(q, x) }

\* the cleanup step
Cleanup ==
    /\ pc = "cleanup"
    /\ LET gone == CleanupTargets(files, downloaded_files, skipped_files)
       IN /\ files' = RemoveFiles(files, gone)
          /\ dirs' = DirsAfterCleanup(dirs, RemoveFiles(files, gone))
          /\ ops' = [ops EXCEPT !.cleanup = @ + 1, !.removed = @ \cup gone]
    /\ archive' = NoArchive
    /\ pc' = "returned"
    /\ UNCHANGED <<config, dest, runNo, all_files, idx, total_size,
                   downloaded_files, skipped_files, exit_code, start, prev>>

Next ==
    \/ MainStart
    \/ ListPrefix
    \/ EmptyCheck
    \/ SizeProbe
    \/ SimulateProcess
    \/ MakeLocalDir
    \/ DownloadStep
    \/ CreateZip
    \/ UploadZip
    \/ Summary
    \/ Cleanup
    \/ MainReturn
    \/ NextRun

Spec == Init /\ [][Next]_vars

\* ==================================================================== claims
InRun == pc \notin {"main", "exit"}

\* the local state and the destination are as the run found them
Untouched ==
    /\ files = start.files
    /\ dirs = start.dirs
    /\ archive = start.archive
    /\ dest = start.dest

\* C1: idempotence.  In a run that follows a run which returned normally, with
\* dry_run, overwrite_s3 and delete_local_after all off, no transfer and no
\* upload is issued, and the archive it ends with is the archive the previous
\* run left.
C1_SecondRunIsNoOp ==
    (/\ InRun
     /\ runNo >= 2
     /\ prev.result = "returned"
     /\ ~config.dry_run /\ ~config.overwrite_s3 /\ ~config.delete_local_after)
    => /\ ops.transfer = 0
       /\ ops.upload = 0
       /\ (pc = "returned" => archive = prev.archive)

\* C2: skip-if-exists.  A download step whose destination holds a file of size
\* > 0 issues no transfer, leaves the local files as they are and appends the
\* path to the skipped list; a step whose destination is absent or an empty
\* file issues one transfer.
C2_SkipIfExists ==
    [][ (pc = "download") =>
          LET p == Join(local_dir, LocalPath(all_files[idx]))
              t == Resolve(p)
          IN /\ (t \in DOMAIN files /\ files[t] > 0) =>
                   /\ ops'.transfer = ops.transfer
                   /\ files' = files
                   /\ skipped_files' = Append(skipped_files, p)
                   /\ downloaded_files' = downloaded_files
             /\ ((t \notin DOMAIN files /\ t \notin dirs) \/ (t \in DOMAIN files /\ files[t] = 0)) =>
                   /\ ops'.transfer = ops.transfer + 1
                   /\ skipped_files' = skipped_files
                   /\ (pc' # "raised" => t \in DOMAIN files' /\ files'[t] = ContentOf(all_files[idx]))
      ]_vars

\* C2 witness: a run in which one object was skipped over a non-empty local
\* file and another, whose destination held an empty file, was transferred
C2_Witness ==
    /\ pc = "zip"
    /\ skipped_files # <<>>
    /\ \E i \in 1..Len(downloaded_files) :
          /\ Resolve(downloaded_files[i]) \in DOMAIN start.files
          /\ start.files[Resolve(downloaded_files[i])] = 0

\* C3: publish gating.  _upload_zip issues no upload and returns without error
\* when the destination exists and overwrite_s3 is off; it issues exactly one
\* upload when the destination exists and overwrite_s3 is on, and exactly one
\* when the destination does not exist.
C3_PublishGating ==
    [][ (pc = "upload") =>
          /\ (dest.kind # "none" /\ ~config.overwrite_s3) =>
                (ops'.upload = ops.upload /\ pc' = "summary")
          /\ (dest.kind # "none" /\ config.overwrite_s3) => ops'.upload = ops.upload + 1
          /\ (dest.kind = "none") => ops'.upload = ops.upload + 1
      ]_vars

\* C4: empty-input no-op.  Once every configured prefix has been listed and no
\* object was found, process_folders returns without raising, main exits 0,
\* and the run has issued nothing but the listings and changed nothing.
C4_EmptyInputNoOp ==
    (pc # "main" /\ idx > Len(config.source_prefixes) /\ all_files = <<>>)
    => /\ pc \in {"list", "returned", "exit"}
       /\ exit_code \in {-1, 0}
       /\ ops.list = Len(config.source_prefixes)
       /\ ops.head = 0 /\ ops.mkdir = 0 /\ ops.transfer = 0 /\ ops.build = 0
       /\ ops.written = 0 /\ ops.upload = 0 /\ ops.cleanup = 0
       /\ ops.removed = {} /\ ops.failed = "none"
       /\ Untouched

\* C4 witness: a run over two prefixes, neither of which lists an object, has
\* exited
C4_Witness ==
    /\ pc = "exit"
    /\ exit_code = 0
    /\ all_files = <<>>
    /\ ops.list = 2

\* C5: dry run.  With dry_run set, a run changes neither the local files, the
\* directories, the archive nor the destination, and issues no mkdir,
\* transfer, archive build, upload, deletion or cleanup.
C5_DryRunNoMutation ==
    config.dry_run
    => /\ Untouched
       /\ ops.mkdir = 0 /\ ops.transfer = 0 /\ ops.build = 0 /\ ops.written = 0
       /\ ops.upload = 0 /\ ops.cleanup = 0 /\ ops.removed = {}

\* C5 witness: a dry run that listed and probed objects has returned
C5_Witness ==
    /\ config.dry_run
    /\ pc = "returned"
    /\ all_files # <<>>
    /\ ops.head = Len(all_files)

\* C6: archive round trip.  When _create_zip has returned, every regular file
\* under the local directory other than the archive has an entry under its
\* flattened relative path holding the file's content.
C6_ArchiveRoundTrip ==
    (pc = "upload")
    => \A q \in WalkFiles(files) : <<ArcName(q), files[q]>> \in archive.entries

\* the path segments of a key: its non-empty components
Segments(key) == Components(key)

\* the flattening rule as stated: segment[-2] + separator + segment[-1] for a
\* key of two segments or more, the key itself for a key of one segment
Flattened(key) ==
    LET seg == Segments(key)
    IN IF Len(seg) >= 2
       THEN seg[Len(seg) - 1] \o <<Sep>> \o seg[Len(seg)]
       ELSE key

\* C7: flattening.  Every download step works on the path the flattening rule
\* gives for its key (the path it reports, the only file it touches), and the
\* entry a build writes for a fetched object's file is named by the same path.
C7_Flattening ==
    [][ /\ (pc = "download") =>
             LET p == Join(local_dir, Flattened(all_files[idx]))
             IN /\ downloaded_files' \in {downloaded_files, Append(downloaded_files, p)}
                /\ skipped_files' \in {skipped_files, Append(skipped_files, p)}
                /\ \A q \in (DOMAIN files \cup DOMAIN files') \ {Resolve(p)} :
                      q \in DOMAIN files /\ q \in DOMAIN files' /\ files'[q] = files[q]
        /\ (pc = "zip" /\ pc' = "upload" /\ ops'.written = ops.written + 1) =>
             \A i \in 1..Len(all_files) :
                LET t == Resolve(Join(local_dir, Flattened(all_files[i])))
                IN (t \in WalkFiles(files) /\ ~IsZipItself(t)) =>
                      <<Flattened(all_files[i]), files[t]>> \in archive'.entries
      ]_vars

\* C7 witness: an archive was built that holds, under its last two segments,
\* the content of a fetched object whose key has three segments
C7_Witness ==
    /\ pc = "upload"
    /\ ops.written = 1
    /\ \E i \in 1..Len(all_files) :
          /\ Len(Segments(all_files[i])) >= 3
          /\ Join(local_dir, Flattened(all_files[i])) \in
                { downloaded_files[j] : j \in 1..Len(downloaded_files) }
          /\ <<Flattened(all_files[i]), ContentOf(all_files[i])>> \in archive.entries

\* C8: exit code.  main returns 0 or 1, and 0 exactly when the configuration
\* loaded and no stage of the run raised.
C8_ExitCode ==
    /\ (pc # "exit" => exit_code = -1)
    /\ (pc = "exit" =>
          /\ exit_code \in {0, 1}
          /\ (exit_code = 0) <=>
                (prev.result \notin {"no_config", "init_error"} /\ ops.failed = "none"))

\* C8 witness: a run that built the archive and skipped the upload exited 0
C8_Witness ==
    /\ pc = "exit"
    /\ exit_code = 0
    /\ ops.build = 1
    /\ ops.upload = 0

\* C9: fetcher fail-fast.  When a transfer fails, no file is left at its local
\* path, the files downloaded earlier in the run stay with their content, the
\* run fails (exit code 1) without a further transfer, an archive build, an
\* upload or a cleanup.
C9_FetcherFailFast ==
    /\ [](ops.failed = "download" =>
            /\ pc \in {"raised", "exit"}
            /\ exit_code \in {-1, 1}
            /\ ops.transfer = Len(downloaded_files) + 1
            /\ ops.build = 0 /\ ops.upload = 0 /\ ops.cleanup = 0)
    /\ [][ (pc = "download" /\ pc' = "raised") =>
             /\ Resolve(LocalFilePath(all_files[idx])) \notin DOMAIN files'
             /\ \A i \in 1..Len(downloaded_files) :
                   LET q == Resolve(downloaded_files[i])
                   IN q \in DOMAIN files' /\ files'[q] = files[q]
         ]_vars

\* C10: cleanup scope.  After the cleanup step no file downloaded in the run
\* and no archive is left, and every file that was skipped because it was
\* there with size > 0 before the run is still there with the same content.
C10_CleanupScope ==
    (pc = "returned" /\ ops.cleanup = 1)
    => /\ \A i \in 1..Len(downloaded_files) : Resolve(downloaded_files[i]) \notin DOMAIN files
       /\ archive = NoArchive
       /\ \A i \in 1..Len(skipped_files) :
             LET q == Resolve(skipped_files[i])
             IN (q \in DOMAIN start.files /\ start.files[q] > 0) =>
                   (q \in DOMAIN files /\ files[q] = start.files[q])

\* C11: no partial archive after a failed build.  When an I/O error interrupts
\* the writing of the archive, the run fails and no archive is left at zip_path;
\* and the run that follows a failed build never takes the archive it finds
\* for a valid one (it writes the archive it publishes).
C11_NoPartialArchive ==
    /\ (ops.failed = "zip" /\ ops.written > 0) =>
          (pc \in {"raised", "exit"} /\ archive = NoArchive)
    /\ (InRun /\ prev.failed = "zip" /\ ops.build > 0 /\ ops.failed = "none") =>
          ops.written > 0

\* C12: archive reuse check.  When _create_zip starts with an archive at
\* zip_path: (a) an archive that opens and passes its integrity check is
\* returned unchanged and nothing is written; (b) an archive that does not
\* parse or fails the check is discarded and a new archive is written from the
\* local tree, and the call raises only if the writing itself fails.
C12_ReuseCheck ==
    [][ (pc = "zip" /\ archive # NoArchive) =>
          IF archive.kind = "valid"
          THEN /\ archive' = archive
               /\ ops'.written = ops.written
               /\ pc' = "upload"
          ELSE /\ ops'.written = ops.written + 1
               /\ (pc' = "upload" => archive' = ValidArchive(BuildEntries(files))) ]_vars

\* C13: not-found is never a run failure.  No run raises because the storage
\* answered 404 for a source object, at the lister's probe or at the size probe.
C13_NotFoundNeverFails ==
    ops.cause # "404"

\* C14: a size-probe failure is fatal and precedes all mutation.  Once a size
\* probe has failed the run is raised (exit code 1), and no directory was
\* created, nothing was downloaded, written to the archive, uploaded or cleaned
\* up: files, directories, archive and destination are those of the run's start.
\* Dry-run mode makes no difference.
C14_SizeProbeFatal ==
    ops.failed = "probe" =>
       /\ pc \in {"raised", "exit"}
       /\ (pc = "exit" => exit_code = 1)
       /\ Untouched
       /\ ops.mkdir = 0 /\ ops.transfer = 0 /\ ops.build = 0
       /\ ops.written = 0 /\ ops.upload = 0 /\ ops.cleanup = 0

\* a dry run whose second size probe failed, and whose local directory is absent
C14_Witness ==
    /\ ops.failed = "probe"
    /\ config.dry_run
    /\ ops.head = 2
    /\ Root \notin dirs
    /\ pc = "exit"

\* C15: lister single-key resolution.  For a prefix that does not end with the
\* separator, one call of _list_s3_files issues no paged listing and either
\* appends exactly the prefix (the probe found the object), appends nothing and
\* goes on (the probe answered 404), or raises with the probe's error.
C15_SingleKeyResolution ==
    [][ (/\ pc = "list"
         /\ idx <= Len(config.source_prefixes)
         /\ ~EndsWithSep(config.source_prefixes[idx])) =>
          LET prefix == config.source_prefixes[idx]
          IN /\ ops'.paged = ops.paged
             /\ ops'.list = ops.list + 1
             /\ \/ /\ prefix \in KeySet
                   /\ all_files' = Append(all_files, prefix)
                   /\ ops'.notfound = ops.notfound
                   /\ pc' = "list" /\ idx' = idx + 1
                \/ /\ prefix \notin KeySet
                   /\ all_files' = all_files
                   /\ ops'.notfound = ops.notfound + 1
                   /\ ops'.failed = "none"
                   /\ pc' = "list" /\ idx' = idx + 1
                \/ /\ all_files' = all_files
                   /\ ops'.failed = "list" /\ ops'.cause = "error"
                   /\ pc' = "raised" ]_vars

\* the probe of a single-key prefix answered 404: nothing listed, no paged
\* listing issued, and the listing loop goes on
C15_Witness ==
    /\ pc = "list"
    /\ idx = 2
    /\ ~EndsWithSep(config.source_prefixes[1])
    /\ ops.notfound = 1
    /\ ops.paged = 0
    /\ all_files = <<>>

\* the position of a stage in the pipeline
StageRank(p) ==
    CASE p = "main" -> 0
      [] p = "list" -> 1
      [] p = "probe" -> 2
      [] p = "branch" -> 3
      [] p = "download" -> 4
      [] p = "zip" -> 5
      [] p = "upload" -> 6
      [] p = "summary" -> 7
      [] p = "cleanup" -> 8
      [] p \in {"returned", "raised"} -> 9
      [] p = "exit" -> 10

\* C16: stage ordering.  Within a run the stages follow each other in the order
\* listing, size accounting, downloading, archiving, publishing, cleanup and
\* none is re-entered; each stage's operations are issued in that stage only;
\* downloading starts with every prefix listed and every key probed, archiving
\* with every listed key downloaded or skipped, publishing with the build
\* returned, cleanup with no error recorded; and a recorded error means the run
\* is raised, after which nothing but main's return happens.
C16_StageOrdering ==
    /\ [](/\ (ops.failed # "none") => pc \in {"raised", "exit"}
          /\ (InRun /\ StageRank(pc) >= 4 /\ pc # "raised" /\ all_files # <<>> /\ ~config.dry_run) =>
                (ops.list = Len(config.source_prefixes) /\ ops.head = Len(all_files))
          /\ (ops.transfer > 0 \/ downloaded_files # <<>> \/ skipped_files # <<>>) =>
                (ops.list = Len(config.source_prefixes) /\ ops.head = Len(all_files))
          /\ (ops.build > 0 \/ pc = "zip") =>
                Len(downloaded_files) + Len(skipped_files) = Len(all_files)
          /\ (ops.upload > 0 \/ pc = "upload") => (ops.build = 1)
          /\ (ops.cleanup > 0 \/ pc = "cleanup") => (ops.build = 1 /\ ops.failed = "none"))
    /\ [][ (pc # "exit") =>
           /\ StageRank(pc') >= StageRank(pc)
           /\ (ops'.list # ops.list) => pc = "list"
           /\ (ops'.head # ops.head) => pc = "probe"
           /\ (ops'.mkdir # ops.mkdir) => pc = "branch"
           /\ (ops'.transfer # ops.transfer \/ downloaded_files' # downloaded_files
                  \/ skipped_files' # skipped_files) => pc = "download"
           /\ (ops'.build # ops.build \/ ops'.written # ops.written) => pc = "zip"
           /\ (ops'.upload # ops.upload \/ dest' # dest) => pc = "upload"
           /\ (ops'.cleanup # ops.cleanup) => pc = "cleanup"
           /\ (files' # files) => pc \in {"download", "cleanup"}
           /\ (archive' # archive) => pc \in {"zip", "cleanup"}
           /\ (pc = "cleanup") => (pc' = "returned")
           /\ (pc = "raised") => (pc' = "exit" /\ files' = files /\ dirs' = dirs
                                    /\ archive' = archive /\ dest' = dest /\ ops' = ops) ]_vars

\* a run that went through every stage: listed, probed, transferred, built,
\* uploaded and cleaned up
C16_Witness ==
    /\ pc = "returned"
    /\ ops.list > 1 /\ ops.head > 1 /\ ops.transfer > 1
    /\ ops.written = 1 /\ ops.upload = 1 /\ ops.cleanup = 1

\* C17: a run whose stages all succeed ends in Done.  Once the upload stage has
\* returned without error (at least one object was listed, every probe,
\* download and the build succeeded), process_folders goes on to the cleanup
\* when it is enabled and returns otherwise, without raising, whatever the
\* sizes of the objects (a total of 0 included).
C17_SuccessEndsDone ==
    [][ (pc = "summary") =>
          /\ pc' = (IF config.delete_local_after THEN "cleanup" ELSE "returned")
          /\ ops'.failed = "none" ]_vars

\* C18: no overwrite without permission.  With overwrite_s3 off, a call of
\* _upload_zip that finds an object at the destination key leaves it as it is,
\* whatever the existence probe answered.
C18_NoOverwrite ==
    [][ (pc = "upload" /\ dest # NoArchive /\ ~config.overwrite_s3) => dest' = dest ]_vars

\* C19: the published archive covers the run's input, in the case of a
\* workspace that held a valid archive when the run started.  When the upload
\* starts in such a run, the archive handed to the publisher holds, for every
\* key listed in the run that is an object (not a folder marker), an entry
\* named after its flattened path.
C19_ArchiveCoversInput ==
    (pc = "upload" /\ start.archive.kind = "valid") =>
       /\ archive.kind = "valid"
       /\ \A i \in 1..Len(all_files) :
             ~EndsWithSep(all_files[i]) =>
                \E e \in archive.entries : e[1] = Flattened(all_files[i])

\* C20: workspace containment.  The local path a download step transfers to,
\* or removes after a failed transfer, lies inside the local directory, for
\* every listed key.
C20_WorkspaceContainment ==
    [][ (pc = "download") =>
          LET t == Resolve(LocalFilePath(all_files[idx]))
          IN (ops'.transfer # ops.transfer \/ files' # files) => IsUnder(t, Root) ]_vars

\* C21: the dry-run preview matches the real run.  The destination (bucket and
\* key) a dry run reports is the bucket and key _upload_zip addresses in a
\* normal run under the same configuration, whether or not the destination
\* prefix ends with the separator.
C21_PreviewMatchesUpload ==
    (ops.preview # NoPath) => (ops.preview = UploadPath(config))

====
